---- MODULE Spec2Model ----
(***************************************************************************)
(* Model of the ingestion service (services/ingestion/main.go): the gin    *)
(* router with GET /health, GET /metrics, POST /health/event and POST      *)
(* /health/events/batch, publishHealthEvent and the sarama SyncProducer    *)
(* it sends through.  Every request is served by its own goroutine; a      *)
(* goroutine blocks only inside producer.SendMessage, and what one         *)
(* goroutine does shows to the others through the metrics a scrape reads.  *)
(* A handler is therefore cut at the send, at the broker's answer, and so  *)
(* that a step changes the metrics at most once: the rest of               *)
(* publishHealthEvent, the rest of the handler up to its response, and the *)
(* duration middleware's observation are steps of their own, as is every   *)
(* metric family a scrape gathers.                                         *)
(***************************************************************************)
EXTENDS Integers, Sequences, FiniteSets, Bags, TLC

(* ---- bounds of the model ---- *)
\* number of requests the server receives in one run
MaxReq == 2
\* largest JSON array a client posts
MaxBatch == 2
\* number of events the clients post in one run, over all requests
MaxEvents == 3
\* the wall clock runs from 1 to MaxTime (0 is Go's zero time.Time)
MaxTime == 2
\* clock ticks per second; time.RFC3339 prints whole seconds
TicksPerSecond == 2

Reqs == 1..MaxReq

(* ---- request bodies ---- *)
\* A JSON value as the client sends it: a syntactically broken body, null,
\* a number, an object or an array.  An object is a function from the keys
\* present to their values, together with the keys whose value has a JSON
\* type the HealthEvent field cannot take (a number for user_id, a string
\* that is no RFC3339 time for timestamp).  Timestamps are clock readings
\* instead of RFC3339 strings.
JsonBad == [t |-> "bad"]
JsonNull == [t |-> "null"]
JsonNum == [t |-> "num"]
JsonObjIll(o, ill) == [t |-> "obj", o |-> o, ill |-> ill]
JsonObj(o) == JsonObjIll(o, {})
JsonArr(a) == [t |-> "arr", a |-> a]

\* scenario A of the README: no id, no timestamp
ObjPlain ==
    [user_id |-> "u1", event_type |-> "steps", category |-> "activity"]
\* a caller that sets id, timestamp and created_at itself, unknown category
ObjFull ==
    [id |-> "c1", user_id |-> "u1", event_type |-> "steps",
     category |-> "other", source |-> "app", timestamp |-> 1,
     created_at |-> 1]
ObjNoUser == [id |-> "c1", event_type |-> "steps", category |-> "activity"]
ObjNoType == [user_id |-> "u1", category |-> "activity"]
ObjNoCategory == [user_id |-> "u1", event_type |-> "steps", category |-> ""]

\* {"user_id": 1, "event_type": "steps", "category": "activity"}
ObjIllUser == JsonObjIll([event_type |-> "steps", category |-> "activity"],
                         {"user_id"})
JsonObjects == {ObjPlain, ObjFull, ObjNoUser, ObjNoType, ObjNoCategory}
\* what the elements of a posted array of objects are drawn from
BatchObjects == {ObjFull, ObjNoType}
JsonElements == {JsonObj(o) : o \in BatchObjects}
JsonArrays ==
    {JsonArr(a) : a \in UNION {[1..n -> JsonElements] : n \in 0..MaxBatch}}
\* posted arrays with a null element: [null]
NullArrays == {JsonArr(<<JsonNull>>)}
\* posted arrays with an element the decoder refuses: [{"user_id": 1, ...}]
\* and [{...}, 1]
BadArrays ==
    {JsonArr(<<ObjIllUser>>), JsonArr(<<JsonObj(ObjPlain), JsonNum>>)}
\* the bodies posted to /health/event and to /health/events/batch
SingleBodies ==
    {JsonBad, JsonNull, ObjIllUser} \cup {JsonObj(o) : o \in JsonObjects}
BatchBodies ==
    {JsonBad, JsonNull, JsonObj(ObjPlain)}
        \cup JsonArrays \cup NullArrays \cup BadArrays

(* ---- HealthEvent and its decoding ---- *)
Field(o, k, zero) == IF k \in DOMAIN o THEN o[k] ELSE zero

\* json.Unmarshal into a HealthEvent: absent keys keep Go's zero value
DecodeEvent(o) ==
    [ID        |-> Field(o, "id", ""),
     UserID    |-> Field(o, "user_id", ""),
     EventType |-> Field(o, "event_type", ""),
     Category  |-> Field(o, "category", ""),
     Value     |-> Field(o, "value", "nil"),
     Timestamp |-> Field(o, "timestamp", 0),
     Source    |-> Field(o, "source", ""),
     DeviceID  |-> Field(o, "device_id", ""),
     CreatedAt |-> Field(o, "created_at", 0)]

\* Decoding a JSON value into a HealthEvent fails: the value is neither an
\* object nor null, or a known key holds a value of the wrong type.  This is
\* c.ShouldBindJSON(&event) of healthEventHandler, err # nil, and the
\* decoding of one element of the array posted to the batch route.
BindEventFails(raw) ==
    \/ raw.t \notin {"obj", "null"}
    \/ raw.t = "obj" /\ raw.ill # {}

\* what the decoder leaves in event: null leaves the zero HealthEvent
BindEvent(raw) ==
    IF raw.t = "obj" THEN DecodeEvent(raw.o) ELSE DecodeEvent(<<>>)

\* c.ShouldBindJSON(&events) with events a []HealthEvent: err # nil.  The
\* body null decodes without error and leaves the slice nil.
BindEventsFails(raw) ==
    \/ raw.t \notin {"arr", "null"}
    \/ raw.t = "arr" /\ \E i \in DOMAIN raw.a : BindEventFails(raw.a[i])

\* what the decoder leaves in events: one HealthEvent per element, the zero
\* HealthEvent for a null element; a body that is no array leaves the slice
\* nil
BindEvents(raw) ==
    IF raw.t # "arr" THEN <<>>
    ELSE [i \in DOMAIN raw.a |-> BindEvent(raw.a[i])]

\* the required-field test of healthEventHandler
MissingFieldsUserOnly(event) == event.UserID = ""
MissingFields(event) ==
    event.UserID = "" \/ event.EventType = "" \/ event.Category = ""

\* "Set timestamp if not provided"
DefaultTimestamp(event, t) ==
    IF event.Timestamp = 0 THEN [event EXCEPT !.Timestamp = t] ELSE event

(* ---- configuration and routing ---- *)
DefaultTopics ==
    [activity   |-> "health.activity.raw",
     heart_rate |-> "health.heart_rate.raw",
     sleep      |-> "health.sleep.raw",
     nutrition  |-> "health.nutrition.raw",
     weight     |-> "health.weight.raw",
     mood       |-> "health.mood.raw",
     hydration  |-> "health.hydration.raw",
     meditation |-> "health.meditation.raw"]

getTopicForCategoryOrEmpty(topics, category) ==
    IF category \in DOMAIN topics THEN topics[category]
    ELSE ""
getTopicForCategory(topics, category) ==
    IF category \in DOMAIN topics THEN topics[category]
    ELSE "health.unknown.raw"

(* ---- publishHealthEvent, the code before the send ---- *)
\* uuid.New().String(): the n-th identifier drawn
uuid(n) == "uuid-" \o ToString(n)

\* event.ID = uuid.New().String(); event.CreatedAt = time.Now(), on the
\* callee's copy of the event
AssignIdentityIfUnset(event, id, t) ==
    [event EXCEPT !.ID = IF @ = "" THEN id ELSE @,
                  !.CreatedAt = IF @ = 0 THEN t ELSE @]
AssignIdentity(event, id, t) == [event EXCEPT !.ID = id, !.CreatedAt = t]

\* json.Marshal(event): device_id is omitempty
jsonMarshal(event) ==
    LET all == [id |-> event.ID, user_id |-> event.UserID,
                event_type |-> event.EventType, category |-> event.Category,
                value |-> event.Value, timestamp |-> event.Timestamp,
                source |-> event.Source, device_id |-> event.DeviceID,
                created_at |-> event.CreatedAt]
        keys == IF event.DeviceID = "" THEN DOMAIN all \ {"device_id"}
                ELSE DOMAIN all
    IN  [k \in keys |-> all[k]]

\* json.Marshal fails on a time.Time whose year is outside 0..9999; every
\* time the service holds was decoded from RFC3339 or read from the clock
jsonMarshalFails(event) ==
    ~(event.Timestamp \in 0..MaxTime /\ event.CreatedAt \in 0..MaxTime)

\* event.Timestamp.Format(time.RFC3339): whole seconds
FormatRFC3339RoundedUp(t) ==
    [sec |-> (t + TicksPerSecond - 1) \div TicksPerSecond]
FormatRFC3339(t) == [sec |-> t \div TicksPerSecond]

\* the sarama.ProducerMessage
ProducerMessageKeyedById(event, topic) ==
    [Topic   |-> topic,
     Key     |-> event.ID,
     Value   |-> jsonMarshal(event),
     Headers |-> [event_type |-> event.EventType,
                  category   |-> event.Category,
                  source     |-> event.Source,
                  timestamp  |-> FormatRFC3339(event.Timestamp)]]
ProducerMessage(event, topic) ==
    [Topic   |-> topic,
     Key     |-> event.UserID,
     Value   |-> jsonMarshal(event),
     Headers |-> [event_type |-> event.EventType,
                  category   |-> event.Category,
                  source     |-> event.Source,
                  timestamp  |-> FormatRFC3339(event.Timestamp)]]

(* ---- state ---- *)
VARIABLES
    backend,     \* the Kafka cluster as the producer finds it
    now,         \* the wall clock, time.Now()
    uuids,       \* how many identifiers uuid.New() has handed out
    log,         \* the messages the brokers have acknowledged, in order
    pc,          \* per request: where its goroutine is
    route,       \* per request: the route gin matched
    raw,         \* per request: the body posted
    events,      \* per request: the handler's decoded event(s)
    idx,         \* per request: the batch loop's position
    frame,       \* per request: publishHealthEvent's locals while it blocks
    calls,       \* per request: the producer.SendMessage calls it made
    results,     \* per request: the batch handler's results slice
    resp,        \* per request: the response written
    spanEnds,    \* per request: span.End() calls on the handler's span
    spanStarts,  \* per request: tracer.Start() calls made for it
    cancelled,   \* per request: its context is done, the client is gone
    page,        \* per request: the metric families a scrape has gathered
    healthEventsReceived,
    healthEventsPublished,
    healthEventsErrors,
    requestDuration,
    config,      \* config.Kafka.Topics as viper.Unmarshal left it
    tracer,      \* the global tracer: "nil" or "set"
    producer,    \* the global producer: "nil", "open", "closing", "closed"
    mainPc       \* where init() and main() are

metrics ==
    <<healthEventsReceived, healthEventsPublished, healthEventsErrors,
      requestDuration>>
reqvars ==
    <<pc, route, raw, events, idx, frame, calls, results, resp, spanEnds,
      spanStarts, cancelled, page>>
procvars == <<config, tracer, producer, mainPc>>
vars == <<backend, now, uuids, log, reqvars, metrics, procvars>>

BackendStates == {"available", "rejecting", "unreachable"}

NoFrame == [active |-> FALSE]
NoResp == [status |-> 0]

\* CounterVec.WithLabelValues(x).Inc(): one more under the labels x
OneTwice(x) == SetToBag({x}) (+) SetToBag({x})
One(x) == SetToBag({x})

Init ==
    /\ backend = "available"
    /\ now = 1
    /\ uuids = 0
    /\ log = <<>>
    /\ pc = [r \in Reqs |-> "idle"]
    /\ route = [r \in Reqs |-> "none"]
    /\ raw = [r \in Reqs |-> JsonBad]
    /\ events = [r \in Reqs |-> <<>>]
    /\ idx = [r \in Reqs |-> 0]
    /\ frame = [r \in Reqs |-> NoFrame]
    /\ calls = [r \in Reqs |-> <<>>]
    /\ results = [r \in Reqs |-> <<>>]
    /\ resp = [r \in Reqs |-> NoResp]
    /\ spanEnds = [r \in Reqs |-> 0]
    /\ spanStarts = [r \in Reqs |-> 0]
    /\ cancelled = [r \in Reqs |-> FALSE]
    /\ page = [r \in Reqs |-> <<>>]
    /\ healthEventsReceived = EmptyBag
    /\ healthEventsPublished = EmptyBag
    /\ healthEventsErrors = EmptyBag
    /\ requestDuration = EmptyBag
    /\ config = DefaultTopics
    /\ tracer = "set"
    /\ producer = "open"
    /\ mainPc = "serve"

\* Requests are numbered in the order they arrive; a request that brings n
\* events arrives only while the clients' budget of events allows it.
RECURSIVE Submitted(_)
Submitted(n) == IF n = 0 THEN 0 ELSE Len(events[n]) + Submitted(n - 1)

\* the server goroutine of main() is up: router.Run serves from the moment
\* main starts it until the process ends, main never stops it
Listening == mainPc \in {"serve", "closing", "closed"}

\* the process has not ended: main has not returned, log.Fatalf was not
\* called, no signal has killed it
Running == mainPc \notin {"exited", "fatal", "killed"}

Arrives(r, n) ==
    /\ Listening
    /\ pc[r] = "idle"
    /\ \A q \in Reqs : q < r => pc[q] # "idle"
    /\ Submitted(MaxReq) + n <= MaxEvents

(* ---- the duration middleware of setupRouter ---- *)
\* requestDuration.WithLabelValues(method, c.FullPath(), status).Observe
Observe(hist, method, path, status) ==
    hist (+) One(<<method, path, ToString(status)>>)

\* c.Request.Method of the request gin matched to the route
Method(r) ==
    IF route[r] \in {"/health/event", "/health/events/batch"} THEN "POST"
    ELSE "GET"

\* The code of the middleware after c.Next(): the handler has returned and
\* the response is written; the observation is the last step of the request.
Middleware(r) ==
    /\ Running
    /\ pc[r] = "mw"
    /\ pc' = [pc EXCEPT ![r] = "done"]
    /\ requestDuration' =
          Observe(requestDuration, Method(r), route[r], resp[r].status)
    /\ UNCHANGED <<backend, now, uuids, log, route, raw, events, idx, frame,
                   calls, results, resp, spanEnds, spanStarts, cancelled,
                   healthEventsReceived, healthEventsPublished,
                   healthEventsErrors, procvars, page>>

(* ---- GET /health ---- *)
healthCheckStatusProbing(b) == IF b = "available" THEN 200 ELSE 503
healthCheckStatus(b) == 200

healthCheckHandler(r) ==
    /\ Arrives(r, 0)
    /\ pc' = [pc EXCEPT ![r] = "mw"]
    /\ route' = [route EXCEPT ![r] = "/health"]
    /\ resp' = [resp EXCEPT ![r] =
                  [status |-> healthCheckStatus(backend),
                   body |-> [status |-> "healthy",
                             service |-> "ingestion-service",
                             timestamp |-> now]]]
    /\ UNCHANGED <<backend, now, uuids, log, raw, events, idx, frame, calls,
                   results, spanEnds, spanStarts, cancelled, metrics,
                   procvars, page>>

(* ---- GET /metrics ---- *)
\* the metric families promhttp.Handler() exposes, by name
Families ==
    {"health_events_received_total", "health_events_published_total",
     "health_events_errors_total", "http_request_duration_seconds"}

\* what Collect reads of a family at the instant it is gathered
Exposition(name) ==
    CASE name = "health_events_received_total" -> healthEventsReceived
      [] name = "health_events_published_total" -> healthEventsPublished
      [] name = "health_events_errors_total" -> healthEventsErrors
      [] OTHER -> requestDuration

\* One family is gathered into the page of request r; the registry gathers
\* its collectors each at its own instant and in no fixed order, the other
\* goroutines running on.  With the last family the page is written to the
\* client.
Gather(r, name) ==
    LET gathered == (name :> Exposition(name)) @@ page[r] IN
    /\ page' = [page EXCEPT ![r] = gathered]
    /\ IF DOMAIN gathered = Families
       THEN /\ resp' = [resp EXCEPT ![r] = [status |-> 200, body |-> gathered]]
            /\ pc' = [pc EXCEPT ![r] = "mw"]
       ELSE /\ resp' = resp
            /\ pc' = [pc EXCEPT ![r] = "gather"]

\* GET /metrics arrives and promhttp's ServeHTTP gathers the first family
metricsHandler(r, name) ==
    /\ Arrives(r, 0)
    /\ route' = [route EXCEPT ![r] = "/metrics"]
    /\ Gather(r, name)
    /\ UNCHANGED <<backend, now, uuids, log, raw, events, idx, frame, calls,
                   results, spanEnds, spanStarts, cancelled, metrics,
                   procvars>>

\* ServeHTTP gathers a further family
Collect(r, name) ==
    /\ Running
    /\ pc[r] = "gather"
    /\ name \notin DOMAIN page[r]
    /\ Gather(r, name)
    /\ UNCHANGED <<backend, now, uuids, log, route, raw, events, idx, frame,
                   calls, results, spanEnds, spanStarts, cancelled, metrics,
                   procvars>>

(* ---- a request no route matches, GET /nosuchpath ---- *)
\* c.FullPath() of a request gin matched to no route
NoRoute == ""

\* gin sets the status 404 and runs the chain of router.Use, which has no
\* handler to run: the middleware observes the request at once, under the
\* status 404 the response writer holds, and nothing is written to the
\* client yet
NotFound(r) ==
    /\ Arrives(r, 0)
    /\ pc' = [pc EXCEPT ![r] = "body"]
    /\ route' = [route EXCEPT ![r] = NoRoute]
    /\ resp' = [resp EXCEPT ![r] = [status |-> 404]]
    /\ requestDuration' = Observe(requestDuration, "GET", NoRoute, 404)
    /\ UNCHANGED <<backend, now, uuids, log, raw, events, idx, frame, calls,
                   results, spanEnds, spanStarts, cancelled,
                   healthEventsReceived, healthEventsPublished,
                   healthEventsErrors, procvars, page>>

\* after the chain gin writes the default 404 body
NotFoundBody(r) ==
    /\ Running
    /\ pc[r] = "body"
    /\ pc' = [pc EXCEPT ![r] = "done"]
    /\ resp' = [resp EXCEPT ![r] =
                  [status |-> 404, body |-> "404 page not found"]]
    /\ UNCHANGED <<backend, now, uuids, log, route, raw, events, idx, frame,
                   calls, results, spanEnds, spanStarts, cancelled, metrics,
                   procvars, page>>

(* ---- a route's path with a trailing slash ---- *)
\* the requests gin redirects (RedirectTrailingSlash of gin.Default):
\* GET /health/ and POST /health/event/
SlashRequests ==
    {[method |-> "GET", path |-> "/health/"],
     [method |-> "POST", path |-> "/health/event/"]}

\* 301 for GET, 307 for every other method, to the path without the slash
RedirectStatus(req) == IF req.method = "GET" THEN 301 ELSE 307
RedirectLocation(req) == SubSeq(req.path, 1, Len(req.path) - 1)

\* http.Redirect writes a short HTML body for a GET that has set no
\* Content-Type, and no body for any other method
RedirectResponse(req) ==
    IF req.method = "GET"
    THEN [status |-> RedirectStatus(req),
          location |-> RedirectLocation(req),
          body |-> "<a href=\"" \o RedirectLocation(req)
                       \o "\">Moved Permanently</a>.\n\n"]
    ELSE [status |-> RedirectStatus(req),
          location |-> RedirectLocation(req)]

\* gin answers the redirect itself: no handler and no middleware of
\* router.Use runs, nothing is observed
RedirectTrailingSlash(r, req) ==
    /\ Arrives(r, 0)
    /\ pc' = [pc EXCEPT ![r] = "done"]
    /\ route' = [route EXCEPT ![r] = req.path]
    /\ resp' = [resp EXCEPT ![r] = RedirectResponse(req)]
    /\ UNCHANGED <<backend, now, uuids, log, raw, events, idx, frame, calls,
                   results, spanEnds, spanStarts, cancelled, metrics,
                   procvars, page>>

(* ---- publishHealthEvent up to producer.SendMessage ---- *)
\* What one call has done when it either returns a marshal error or hands
\* its message to the producer: the counters, the identifier drawn, the
\* callee's copy of the event and the message.
PublishEntryUncounted(event, t, n, received, errors) ==
    LET own == AssignIdentity(event, uuid(n + 1), t)
        topic == getTopicForCategory(config, own.Category)
        failed == jsonMarshalFails(own)
    IN  [failed   |-> failed,
         uuids    |-> n + 1,
         received |-> received,
         errors   |-> IF failed THEN errors (+) One("json_marshal")
                      ELSE errors,
         frame    |-> [active |-> TRUE, event |-> own, topic |-> topic],
         msg      |-> ProducerMessage(own, topic)]
PublishEntry(event, t, n, received, errors) ==
    LET own == AssignIdentity(event, uuid(n + 1), t)
        topic == getTopicForCategory(config, own.Category)
        failed == jsonMarshalFails(own)
    IN  [failed   |-> failed,
         uuids    |-> n + 1,
         received |-> received (+) One(<<event.EventType, event.Source>>),
         errors   |-> IF failed THEN errors (+) One("json_marshal")
                      ELSE errors,
         frame    |-> [active |-> TRUE, event |-> own, topic |-> topic],
         msg      |-> ProducerMessage(own, topic)]

\* What producer.SendMessage does with a message handed to it: an open
\* producer passes it to the brokers and blocks; a producer that is shutting
\* down returns ErrShuttingDown; a closed one panics on its closed input
\* channel.
SendOutcome ==
    CASE producer = "open" -> "pending"
      [] producer = "closing" -> "refused"
      [] OTHER -> "panic"
\* where the caller is once the message is handed over
AfterSendNoWait == "ret"
AfterSend == IF producer = "open" THEN "send" ELSE "ret"

\* err.Error() of the errors producer.SendMessage returns: the brokers
\* rejected the write, no broker was reached, the producer is shutting down
ErrRejected ==
    "kafka server: Messages are rejected since there are fewer in-sync replicas than required"
ErrOutOfBrokers == "kafka: client has run out of available brokers to talk to"
ErrShuttingDown == "kafka: message received by producer in process of shutting down"
SendError(b) == IF b = "rejecting" THEN ErrRejected ELSE ErrOutOfBrokers

\* producer.SendMessage(message) is called: once, for element i
SendCall(i, msg) ==
    [idx |-> i, msg |-> msg, outcome |-> SendOutcome,
     err |-> IF SendOutcome = "refused" THEN ErrShuttingDown ELSE ""]
SendMessageAndResend(cs, i, msg) ==
    Append(Append(cs, SendCall(i, msg)), SendCall(i, msg))
SendMessage(cs, i, msg) == Append(cs, SendCall(i, msg))

\* err.Error() of the two errors publishHealthEvent returns
\* fmt.Errorf("...: %w", err): the text of the cause follows the prefix
MarshalCause ==
    "json: error calling MarshalJSON for type time.Time: Time.MarshalJSON: year outside of range [0,9999]"
MarshalError == "failed to marshal event: " \o MarshalCause
PublishError(call) == "failed to publish to Kafka: " \o call.err

(* ---- POST /health/event ---- *)
SingleOk(event) ==
    [status |-> 200,
     body |-> [message |-> "Health event processed successfully",
               event_id |-> event.ID]]
SingleError(status, text) == [status |-> status, body |-> [error |-> text]]

\* healthEventHandler from its first line to the response or to the
\* blocking SendMessage
healthEventHandler(r, body) ==
    /\ Arrives(r, 1)
    /\ route' = [route EXCEPT ![r] = "/health/event"]
    /\ raw' = [raw EXCEPT ![r] = body]
    \* ctx, span := tracer.Start(c.Request.Context(), ...)
    /\ spanStarts' = [spanStarts EXCEPT ![r] = @ + 1]
    /\ UNCHANGED <<backend, now, log, idx, results, cancelled,
                   healthEventsPublished, requestDuration, procvars, page>>
    /\ IF BindEventFails(body)
       THEN /\ healthEventsErrors' = healthEventsErrors (+) One("invalid_json")
            /\ resp' = [resp EXCEPT ![r] =
                          SingleError(400, "Invalid JSON payload")]
            /\ pc' = [pc EXCEPT ![r] = "mw"]
            /\ spanEnds' = [spanEnds EXCEPT ![r] = @ + 1]
            /\ UNCHANGED <<uuids, events, frame, calls, healthEventsReceived>>
       ELSE LET decoded == BindEvent(body) IN
            IF MissingFields(decoded)
            THEN /\ healthEventsErrors' =
                       healthEventsErrors (+) One("missing_fields")
                 /\ resp' = [resp EXCEPT ![r] =
                               SingleError(400, "Missing required fields")]
                 /\ pc' = [pc EXCEPT ![r] = "mw"]
                 /\ spanEnds' = [spanEnds EXCEPT ![r] = @ + 1]
                 /\ events' = [events EXCEPT ![r] = <<decoded>>]
                 /\ UNCHANGED <<uuids, frame, calls, healthEventsReceived>>
            ELSE LET event == DefaultTimestamp(decoded, now)
                     p == PublishEntry(event, now, uuids,
                                       healthEventsReceived,
                                       healthEventsErrors)
                 IN  /\ events' = [events EXCEPT ![r] = <<event>>]
                     /\ uuids' = p.uuids
                     /\ healthEventsReceived' = p.received
                     /\ healthEventsErrors' = p.errors
                     /\ IF p.failed
                        THEN \* publishHealthEvent returned the marshal error
                             /\ resp' = [resp EXCEPT ![r] =
                                   SingleError(500, "Failed to process event")]
                             /\ pc' = [pc EXCEPT ![r] = "mw"]
                             /\ spanEnds' = [spanEnds EXCEPT ![r] = @ + 2]
                             /\ UNCHANGED <<frame, calls>>
                        ELSE /\ frame' = [frame EXCEPT ![r] = p.frame]
                             /\ calls' = [calls EXCEPT ![r] =
                                            SendMessage(@, 1, p.msg)]
                             /\ pc' = [pc EXCEPT ![r] = AfterSend]
                             /\ UNCHANGED <<resp, spanEnds>>

(* ---- POST /health/events/batch ---- *)
ResultOk(event) == [event_id |-> event.ID, status |-> "success"]
ResultErrAsSuccess(event, err) == [event_id |-> event.ID, status |-> "success"]
ResultErr(event, err) == [event_id |-> event.ID, error |-> err]

\* the status of the batch response once the loop has ended
BatchStatusAllOrNothing(res) ==
    IF \E i \in DOMAIN res : "error" \in DOMAIN res[i] THEN 500 ELSE 200
BatchStatus(res) == 200

\* The loop "for _, event := range events" from element i on, up to the
\* first element whose publishHealthEvent blocks in SendMessage (at = its
\* index) or to the end of the slice (at = Len(evs) + 1).
RECURSIVE BatchLoop(_, _, _, _)
BatchLoop(evs, i, t, st) ==
    IF i > Len(evs)
    THEN [st EXCEPT !.at = i]
    ELSE LET p == PublishEntry(evs[i], t, st.uuids, st.received, st.errors)
             st1 == [st EXCEPT !.uuids = p.uuids, !.received = p.received,
                               !.errors = p.errors]
         IN  IF p.failed
             THEN BatchLoop(evs, i + 1, t,
                     [st1 EXCEPT !.results =
                         Append(@, ResultErr(evs[i], MarshalError))])
             ELSE [st1 EXCEPT !.at = i, !.frame = p.frame, !.msg = p.msg]

LoopState(n, received, errors, res) ==
    [uuids |-> n, received |-> received, errors |-> errors, results |-> res,
     at |-> 0, frame |-> NoFrame, msg |-> NoFrame]

\* The batch handler resumes its loop at element i: it either blocks in the
\* next SendMessage or writes the response.
BatchContinue(r, evs, i, res, errors) ==
    LET st == BatchLoop(evs, i, now,
                  LoopState(uuids, healthEventsReceived, errors, res))
    IN  /\ uuids' = st.uuids
        /\ healthEventsReceived' = st.received
        /\ healthEventsErrors' = st.errors
        /\ results' = [results EXCEPT ![r] = st.results]
        /\ idx' = [idx EXCEPT ![r] = st.at]
        /\ IF st.at <= Len(evs)
           THEN /\ frame' = [frame EXCEPT ![r] = st.frame]
                /\ calls' = [calls EXCEPT ![r] =
                               SendMessage(@, st.at, st.msg)]
                /\ pc' = [pc EXCEPT ![r] = AfterSend]
                /\ UNCHANGED resp
           ELSE /\ frame' = [frame EXCEPT ![r] = NoFrame]
                /\ UNCHANGED calls
                /\ pc' = [pc EXCEPT ![r] = "mw"]
                /\ resp' = [resp EXCEPT ![r] =
                              [status |-> BatchStatus(st.results),
                               body |-> [results |-> st.results]]]

\* the batch handler from its first line to the response or to the first
\* blocking SendMessage
batchHandler(r, body) ==
    /\ Arrives(r, Len(BindEvents(body)))
    /\ route' = [route EXCEPT ![r] = "/health/events/batch"]
    /\ raw' = [raw EXCEPT ![r] = body]
    /\ UNCHANGED <<backend, now, log, spanEnds, spanStarts, cancelled,
                   healthEventsPublished, requestDuration, procvars, page>>
    /\ IF BindEventsFails(body)
       THEN /\ resp' = [resp EXCEPT ![r] =
                          SingleError(400, "Invalid JSON payload")]
            /\ pc' = [pc EXCEPT ![r] = "mw"]
            /\ UNCHANGED <<uuids, events, idx, frame, calls, results,
                           healthEventsReceived, healthEventsErrors>>
       ELSE LET evs == BindEvents(body) IN
            /\ events' = [events EXCEPT ![r] = evs]
            /\ BatchContinue(r, evs, 1, <<>>, healthEventsErrors)

(* ---- the producer and the brokers ---- *)
Last(s) == s[Len(s)]
SetOutcome(cs, o) == [cs EXCEPT ![Len(cs)].outcome = o]
SetError(cs, e) == [cs EXCEPT ![Len(cs)].err = e]

\* the brokers write the message and acknowledge it (RequiredAcks WaitForAll)
BrokerAck(r) ==
    /\ pc[r] = "send"
    /\ backend = "available"
    /\ log' = Append(log, Last(calls[r]).msg)
    /\ calls' = [calls EXCEPT ![r] = SetOutcome(@, "ack")]
    /\ pc' = [pc EXCEPT ![r] = "ret"]
    /\ UNCHANGED <<backend, now, uuids, route, raw, events, idx, frame,
                   results, resp, spanEnds, spanStarts, cancelled,
                   metrics, procvars, page>>

\* the producer gives up: the write was rejected or no broker was reached
\* within Producer.Retry.Max retries
BrokerFail(r) ==
    /\ pc[r] = "send"
    /\ backend # "available"
    /\ calls' = [calls EXCEPT ![r] =
                   SetError(SetOutcome(@, "err"), SendError(backend))]
    /\ pc' = [pc EXCEPT ![r] = "ret"]
    /\ UNCHANGED <<backend, now, uuids, log, route, raw, events, idx, frame,
                   results, resp, spanEnds, spanStarts, cancelled,
                   metrics, procvars, page>>

\* "partition, offset, err := producer.SendMessage(message)": err # nil
SendFailedNever(call) == FALSE
SendFailed(call) == call.outcome \in {"err", "refused"}

\* SendMessage panicked: the deferred calls run and gin's Recovery
\* middleware (gin.Default) answers 500 with no body; the duration
\* middleware's code after c.Next() is skipped
SendPanicked(call) == call.outcome = "panic"
Recovered == [status |-> 500]

(* ---- publishHealthEvent and its caller after SendMessage returned ---- *)
\* The rest of publishHealthEvent once SendMessage has returned: the error
\* counter and the wrapped error, or the published counter and nil; then
\* the deferred span.End().  A panic of SendMessage unwinds the handler too.
PublishReturn(r) ==
    /\ Running
    /\ pc[r] = "ret"
    /\ frame' = [frame EXCEPT ![r] = NoFrame]
    /\ spanEnds' = [spanEnds EXCEPT ![r] =
          IF route[r] = "/health/event"
          THEN (IF SendPanicked(Last(calls[r])) THEN @ + 2 ELSE @ + 1)
          ELSE @]
    /\ UNCHANGED <<backend, now, uuids, log, route, raw, events, idx, calls,
                   results, spanStarts, cancelled, healthEventsReceived,
                   requestDuration, procvars, page>>
    /\ IF SendPanicked(Last(calls[r]))
       THEN /\ resp' = [resp EXCEPT ![r] = Recovered]
            /\ pc' = [pc EXCEPT ![r] = "done"]
            /\ UNCHANGED <<healthEventsErrors, healthEventsPublished>>
       ELSE /\ pc' = [pc EXCEPT ![r] = "handler"]
            /\ resp' = resp
            /\ IF SendFailed(Last(calls[r]))
               THEN /\ healthEventsErrors' =
                          healthEventsErrors (+) One("kafka_publish")
                    /\ UNCHANGED healthEventsPublished
               ELSE /\ healthEventsPublished' = healthEventsPublished (+)
                          One(<<frame[r].topic, frame[r].event.EventType>>)
                    /\ UNCHANGED healthEventsErrors

\* POST /health/event, publishHealthEvent has returned
SingleReturn(r) ==
    /\ route[r] = "/health/event"
    /\ PublishReturn(r)

\* POST /health/events/batch, publishHealthEvent has returned
BatchReturn(r) ==
    /\ route[r] = "/health/events/batch"
    /\ PublishReturn(r)

\* healthEventHandler after publishHealthEvent: the 500, or the handler's
\* own observation and the 200; then the deferred span.End()
SingleRespond(r) ==
    /\ Running
    /\ pc[r] = "handler"
    /\ route[r] = "/health/event"
    /\ pc' = [pc EXCEPT ![r] = "mw"]
    /\ spanEnds' = [spanEnds EXCEPT ![r] = @ + 1]
    /\ UNCHANGED <<backend, now, uuids, log, route, raw, events, idx, frame,
                   calls, results, spanStarts, cancelled,
                   healthEventsReceived, healthEventsPublished,
                   healthEventsErrors, procvars, page>>
    /\ IF SendFailed(Last(calls[r]))
       THEN /\ resp' = [resp EXCEPT ![r] =
                          SingleError(500, "Failed to process event")]
            /\ UNCHANGED requestDuration
       ELSE /\ requestDuration' =
                  Observe(requestDuration, "POST", "/health/event", 200)
            /\ resp' = [resp EXCEPT ![r] = SingleOk(events[r][1])]

\* the batch handler after publishHealthEvent: the result entry of the
\* element, and the loop from the next element on
BatchAppend(r) ==
    /\ Running
    /\ pc[r] = "handler"
    /\ route[r] = "/health/events/batch"
    /\ UNCHANGED <<backend, now, log, route, raw, events, spanEnds,
                   spanStarts, cancelled, healthEventsPublished,
                   requestDuration, procvars, page>>
    /\ LET event == events[r][idx[r]]
           failed == SendFailed(Last(calls[r]))
       IN  BatchContinue(r, events[r], idx[r] + 1,
               Append(results[r],
                      IF failed
                      THEN ResultErr(event, PublishError(Last(calls[r])))
                      ELSE ResultOk(event)),
               healthEventsErrors)

(* ---- the environment ---- *)
BackendChange ==
    /\ \E b \in BackendStates \ {backend} : backend' = b
    /\ UNCHANGED <<now, uuids, log, reqvars, metrics, procvars>>

Tick ==
    /\ now < MaxTime
    /\ now' = now + 1
    /\ UNCHANGED <<backend, uuids, log, reqvars, metrics, procvars>>

Next ==
    \/ \E r \in Reqs : healthCheckHandler(r)
    \/ \E r \in Reqs, name \in Families : metricsHandler(r, name)
    \/ \E r \in Reqs, name \in Families : Collect(r, name)
    \/ \E r \in Reqs : NotFound(r)
    \/ \E r \in Reqs : NotFoundBody(r)
    \/ \E r \in Reqs, req \in SlashRequests : RedirectTrailingSlash(r, req)
    \/ \E r \in Reqs, body \in SingleBodies : healthEventHandler(r, body)
    \/ \E r \in Reqs, body \in BatchBodies : batchHandler(r, body)
    \/ \E r \in Reqs : BrokerAck(r)
    \/ \E r \in Reqs : BrokerFail(r)
    \/ \E r \in Reqs : SingleReturn(r)
    \/ \E r \in Reqs : BatchReturn(r)
    \/ \E r \in Reqs : SingleRespond(r)
    \/ \E r \in Reqs : BatchAppend(r)
    \/ \E r \in Reqs : Middleware(r)
    \/ BackendChange
    \/ Tick

Spec == Init /\ [][Next]_vars

(* ======================================================================= *)
(* The process from its start to its end: init(), main(), the signal       *)
(* ======================================================================= *)
\* config.yaml as the entries it sets, <<key, scalar>> pairs: a key of
\* kafka.topics or server.port; the file may be absent (a warning) or set
\* none of them
NoConfigFile == {}
ConfigFiles ==
    {NoConfigFile,
     {<<"activity", "events.activity">>},
     {<<"activity", "">>},
     {<<"server.port", "9090">>},
     {<<"server.port", "abc">>}}

\* the scalars that decode into the int Config.Server.Port
IntScalars == {"8080", "9090"}

\* viper.Unmarshal(&config): err # nil, a scalar does not decode into the
\* field's type
viperUnmarshalFails(file) ==
    \E e \in file : e[1] = "server.port" /\ e[2] \notin IntScalars

\* viper.Unmarshal(&config): a key the file sets overrides its default
viperUnmarshal(file) ==
    [k \in DOMAIN DefaultTopics |->
        IF \E e \in file : e[1] = k
        THEN (CHOOSE e \in file : e[1] = k)[2]
        ELSE DefaultTopics[k]]

\* the zero Config
ZeroTopics == [k \in DOMAIN DefaultTopics |-> ""]

InitLife ==
    /\ backend \in BackendStates
    /\ now = 1
    /\ uuids = 0
    /\ log = <<>>
    /\ pc = [r \in Reqs |-> "idle"]
    /\ route = [r \in Reqs |-> "none"]
    /\ raw = [r \in Reqs |-> JsonBad]
    /\ events = [r \in Reqs |-> <<>>]
    /\ idx = [r \in Reqs |-> 0]
    /\ frame = [r \in Reqs |-> NoFrame]
    /\ calls = [r \in Reqs |-> <<>>]
    /\ results = [r \in Reqs |-> <<>>]
    /\ resp = [r \in Reqs |-> NoResp]
    /\ spanEnds = [r \in Reqs |-> 0]
    /\ spanStarts = [r \in Reqs |-> 0]
    /\ cancelled = [r \in Reqs |-> FALSE]
    /\ page = [r \in Reqs |-> <<>>]
    /\ healthEventsReceived = EmptyBag
    /\ healthEventsPublished = EmptyBag
    /\ healthEventsErrors = EmptyBag
    /\ requestDuration = EmptyBag
    /\ config = ZeroTopics
    /\ tracer = "nil"
    /\ producer = "nil"
    /\ mainPc = "init"

\* log.Fatalf: the process ends at once
Fatalf == "fatal"

\* init(): defaults, ReadInConfig, Unmarshal;
\* "if err := viper.Unmarshal(&config); err != nil { log.Fatalf }"
ConfigFailure == Fatalf
LoadConfig(file) ==
    /\ mainPc = "init"
    /\ config' = IF viperUnmarshalFails(file) THEN config
                 ELSE viperUnmarshal(file)
    /\ mainPc' = IF viperUnmarshalFails(file) THEN ConfigFailure
                 ELSE "tracer"
    /\ UNCHANGED <<backend, now, uuids, log, reqvars, metrics, tracer,
                   producer>>

\* init(): "if err := initTracer(); err != nil { log.Fatalf }"
TracerFailure == Fatalf
initTracer(ok) ==
    /\ mainPc = "tracer"
    /\ tracer' = IF ok THEN "set" ELSE tracer
    /\ mainPc' = IF ok THEN "producer" ELSE TracerFailure
    /\ UNCHANGED <<backend, now, uuids, log, reqvars, metrics, config,
                   producer>>

\* init(): "if err := initKafkaProducer(); err != nil { log.Fatalf }";
\* sarama.NewSyncProducer fails when it reaches none of the brokers
ProducerFailureContinues == "main"
ProducerFailure == Fatalf
initKafkaProducer ==
    /\ mainPc = "producer"
    /\ producer' = IF backend = "unreachable" THEN producer ELSE "open"
    /\ mainPc' = IF backend = "unreachable" THEN ProducerFailure ELSE "main"
    /\ UNCHANGED <<backend, now, uuids, log, reqvars, metrics, config, tracer>>

\* main() up to "<-quit": the server goroutine is started and router.Run
\* listens
StartServer ==
    /\ mainPc = "main"
    /\ mainPc' = "serve"
    /\ UNCHANGED <<backend, now, uuids, log, reqvars, metrics, config, tracer,
                   producer>>

\* the server goroutine: "if err := router.Run(addr); err != nil {
\* log.Fatalf }".  router.Run returns an error when it cannot listen (the
\* address is in use, the port is not permitted) or when the listener
\* fails later; the process ends at once, with the handlers that run, and
\* producer.Close() is not called.
RunFailure == Fatalf
RunFails ==
    /\ mainPc \in {"main", "serve", "closing", "closed"}
    /\ mainPc' = RunFailure
    /\ UNCHANGED <<backend, now, uuids, log, reqvars, metrics, config, tracer,
                   producer>>

\* the state of a process a signal has killed
Killed == "killed"

\* SIGINT or SIGTERM arrives.  While main waits on quit, main goes on to
\* producer.Close(), which makes the producer refuse new messages.  Before
\* signal.Notify, which is the first statement of main and runs after all
\* of init(), the signal has its default disposition: the process is
\* killed where it stands, and a producer init() has built is left open.
Shutdown ==
    /\ mainPc \in {"init", "tracer", "producer", "main", "serve"}
    /\ IF mainPc = "serve"
       THEN /\ mainPc' = "closing"
            /\ producer' = IF producer # "nil" THEN "closing" ELSE producer
       ELSE /\ mainPc' = Killed
            /\ producer' = producer
    /\ UNCHANGED <<backend, now, uuids, log, reqvars, metrics, config, tracer>>

\* producer.Close() returns once the messages in flight are answered
CloseDone ==
    /\ mainPc = "closing"
    /\ \A r \in Reqs : pc[r] # "send"
    /\ producer' = IF producer = "closing" THEN "closed" ELSE producer
    /\ mainPc' = "closed"
    /\ UNCHANGED <<backend, now, uuids, log, reqvars, metrics, config, tracer>>

\* main returns: the process ends, with it the server goroutine and every
\* handler still running
Exit ==
    /\ mainPc = "closed"
    /\ mainPc' = "exited"
    /\ UNCHANGED <<backend, now, uuids, log, reqvars, metrics, config, tracer,
                   producer>>

\* the requests the clients send while the process is followed from its
\* start
LifeSingleBodies == {JsonObj(ObjPlain)}
LifeBatchBodies == {JsonArr(<<JsonObj(ObjPlain)>>)}

NextLife ==
    \/ \E file \in ConfigFiles : LoadConfig(file)
    \/ \E ok \in BOOLEAN : initTracer(ok)
    \/ initKafkaProducer
    \/ StartServer
    \/ RunFails
    \/ Shutdown
    \/ CloseDone
    \/ Exit
    \/ \E r \in Reqs : healthCheckHandler(r)
    \/ \E r \in Reqs, name \in Families : metricsHandler(r, name)
    \/ \E r \in Reqs, name \in Families : Collect(r, name)
    \/ \E r \in Reqs : NotFound(r)
    \/ \E r \in Reqs : NotFoundBody(r)
    \/ \E r \in Reqs, req \in SlashRequests : RedirectTrailingSlash(r, req)
    \/ \E r \in Reqs, body \in LifeSingleBodies : healthEventHandler(r, body)
    \/ \E r \in Reqs, body \in LifeBatchBodies : batchHandler(r, body)
    \/ \E r \in Reqs : BrokerAck(r)
    \/ \E r \in Reqs : BrokerFail(r)
    \/ \E r \in Reqs : SingleReturn(r)
    \/ \E r \in Reqs : BatchReturn(r)
    \/ \E r \in Reqs : SingleRespond(r)
    \/ \E r \in Reqs : BatchAppend(r)
    \/ \E r \in Reqs : Middleware(r)
    \/ BackendChange
    \/ Tick

SpecLife == InitLife /\ [][NextLife]_vars

\* The main goroutine is scheduled: once producer.Close() can return it
\* does, and main then returns. A send in flight ends: the SyncProducer
\* gets the brokers' answer or gives up after Producer.Retry.Max retries.
FairLife ==
    /\ WF_vars(CloseDone)
    /\ WF_vars(Exit)
    /\ \A r \in Reqs : WF_vars(BrokerAck(r) \/ BrokerFail(r))

SpecLifeFair == SpecLife /\ FairLife

(* ======================================================================= *)
(* Clients that give up while their request is being served                *)
(* ======================================================================= *)
\* What the end of the request's context does to the SendMessage call in
\* progress: nothing, "producer.SendMessage(message)" is given no context
CancelSendAborts(cs) ==
    IF cs # <<>> /\ Last(cs).outcome = "pending"
    THEN SetOutcome(cs, "aborted")
    ELSE cs
CancelSend(cs) == cs

\* the client of request r drops its connection or runs out of time while
\* publishHealthEvent is in or just past SendMessage: c.Request.Context()
\* is done, the handler runs on
ClientCancel(r) ==
    /\ pc[r] \in {"send", "ret", "handler"}
    /\ ~cancelled[r]
    /\ cancelled' = [cancelled EXCEPT ![r] = TRUE]
    /\ calls' = [calls EXCEPT ![r] = CancelSend(@)]
    /\ UNCHANGED <<backend, now, uuids, log, pc, route, raw, events, idx,
                   frame, results, resp, spanEnds, spanStarts, metrics,
                   procvars, page>>

CancelSingleBodies == {JsonObj(ObjPlain)}
CancelBatchBodies == {JsonArr(<<JsonObj(ObjPlain), JsonObj(ObjFull)>>)}

NextCancel ==
    \/ \E r \in Reqs : ClientCancel(r)
    \/ \E r \in Reqs : healthCheckHandler(r)
    \/ \E r \in Reqs, name \in Families : metricsHandler(r, name)
    \/ \E r \in Reqs, name \in Families : Collect(r, name)
    \/ \E r \in Reqs : NotFound(r)
    \/ \E r \in Reqs : NotFoundBody(r)
    \/ \E r \in Reqs, req \in SlashRequests : RedirectTrailingSlash(r, req)
    \/ \E r \in Reqs, body \in CancelSingleBodies :
           healthEventHandler(r, body)
    \/ \E r \in Reqs, body \in CancelBatchBodies : batchHandler(r, body)
    \/ \E r \in Reqs : BrokerAck(r)
    \/ \E r \in Reqs : BrokerFail(r)
    \/ \E r \in Reqs : SingleReturn(r)
    \/ \E r \in Reqs : BatchReturn(r)
    \/ \E r \in Reqs : SingleRespond(r)
    \/ \E r \in Reqs : BatchAppend(r)
    \/ \E r \in Reqs : Middleware(r)
    \/ BackendChange
    \/ Tick

SpecCancel == Init /\ [][NextCancel]_vars

(* ======================================================================= *)
(* Properties                                                              *)
(* ======================================================================= *)
\* the response of request r is written
Answered(r) == pc[r] \in {"mw", "done"}
\* request r has left the middleware too
Finished(r) == pc[r] = "done"
IsSingle(r) == route[r] = "/health/event"
IsBatch(r) == route[r] = "/health/events/batch"
IsProbe(r) == route[r] = "/health"

\* a posted JSON object in which a required field is absent or empty
Lacks(o, k) == k \notin DOMAIN o \/ o[k] = ""
LacksRequired(o) ==
    Lacks(o, "user_id") \/ Lacks(o, "event_type") \/ Lacks(o, "category")

\* the fields a posted JSON value gives an event: those of an object, none
\* for null
Fields(v) == IF v.t = "obj" THEN v.o ELSE <<>>

\* a posted JSON value that is an event object: an object whose known keys
\* hold values of the field's type
IsEventObject(v) == v.t = "obj" /\ v.ill = {}

\* a posted body that is an array of event objects
IsObjectArray(body) ==
    body.t = "arr" /\ \A i \in DOMAIN body.a : IsEventObject(body.a[i])

\* a posted body that is an array the decoder takes: its elements are event
\* objects or null
DecodesAsArray(body) ==
    /\ body.t = "arr"
    /\ \A i \in DOMAIN body.a :
           IsEventObject(body.a[i]) \/ body.a[i].t = "null"

IsSuccess(entry) == "status" \in DOMAIN entry /\ entry.status = "success"
IsFailure(entry) == "error" \in DOMAIN entry

\* the SendMessage calls request r made for its element i
CallsFor(r, i) == {k \in DOMAIN calls[r] : calls[r][k].idx = i}
AckedFor(r, i) == \E k \in CallsFor(r, i) : calls[r][k].outcome = "ack"
InLog(msg) == \E k \in DOMAIN log : log[k] = msg

\* the valid single submissions that were answered 200
Accepted ==
    {r \in Reqs : IsSingle(r) /\ Answered(r) /\ resp[r].status = 200}

RECURSIVE SumCalls(_)
SumCalls(n) == IF n = 0 THEN 0 ELSE Len(calls[n]) + SumCalls(n - 1)

(* C1: every 200 response of POST /health/event carries a non-empty        *)
(* event_id, and the event_ids of different accepted submissions differ.   *)
C1_EventIdNonEmptyAndDistinct ==
    \A r \in Accepted :
        /\ resp[r].body.event_id # ""
        /\ \A q \in Accepted \ {r} :
               resp[q].body.event_id # resp[r].body.event_id

(* C2: the event_id reported with a success outcome (the 200 response of   *)
(* the single route, a "success" entry of a batch response) is the id in   *)
(* the body of the message published for that event.                       *)
C2_ReportedIdIsPublishedId ==
    /\ \A r \in Accepted :
           resp[r].body.event_id = calls[r][1].msg.Value.id
    /\ \A r \in Reqs :
           (IsBatch(r) /\ Answered(r) /\ resp[r].status = 200) =>
               \A i \in DOMAIN resp[r].body.results :
                   IsSuccess(resp[r].body.results[i]) =>
                       \A k \in CallsFor(r, i) :
                           resp[r].body.results[i].event_id =
                               calls[r][k].msg.Value.id

(* C3: a POST /health/event whose userId, eventType or category is absent  *)
(* or empty is answered 400 and the producer is never called for it.       *)
C3_MissingFieldRejectedUnpublished ==
    \A r \in Reqs :
        (/\ IsSingle(r) /\ raw[r].t \in {"obj", "null"}
         /\ LacksRequired(Fields(raw[r]))) =>
            /\ Answered(r)
            /\ resp[r].status = 400
            /\ calls[r] = <<>>

C3_Witness ==
    \E r \in Reqs :
        /\ IsSingle(r) /\ raw[r].t = "obj" /\ raw[r].o = ObjNoType
        /\ resp[r].status = 400
        /\ \E q \in Reqs : q # r /\ IsSingle(q) /\ resp[q].status = 200

(* C4: in an answered batch of N elements in which exactly element k fails *)
(* validation and the publishes of all others were acknowledged, there are *)
(* N result entries, entry k is a failure and the others are successes.    *)
C4_MalformedElementMarkedFailure ==
    \A r \in Reqs :
        (IsBatch(r) /\ Answered(r) /\ IsObjectArray(raw[r])) =>
            \A k \in DOMAIN raw[r].a :
                ( /\ LacksRequired(raw[r].a[k].o)
                  /\ \A j \in DOMAIN raw[r].a \ {k} :
                        ~LacksRequired(raw[r].a[j].o) /\ AckedFor(r, j) )
                => /\ Len(resp[r].body.results) = Len(raw[r].a)
                   /\ IsFailure(resp[r].body.results[k])
                   /\ \A j \in DOMAIN raw[r].a \ {k} :
                          IsSuccess(resp[r].body.results[j])

(* C5: a batch element that fails validation is never handed to the        *)
(* producer, so the messages a batch publishes are those of its valid      *)
(* elements whose send was acknowledged.                                   *)
C5_InvalidElementNeverSent ==
    \A r \in Reqs :
        (IsBatch(r) /\ IsObjectArray(raw[r])) =>
            \A k \in DOMAIN calls[r] :
                ~LacksRequired(raw[r].a[calls[r][k].idx].o)

(* C6: a failed send of POST /health/event is answered 500 and never      *)
(* repeated: the request made that one send only, nothing of it reached    *)
(* the log, every call of the publisher made exactly one send, no event    *)
(* was sent twice, and an answered request holds no event back.            *)
C6_FailedSendNotRetried ==
    /\ \A r \in Reqs :
           (IsSingle(r) /\ Answered(r) /\ calls[r] # <<>>
              /\ calls[r][1].outcome = "err") =>
               /\ resp[r].status = 500
               /\ Len(calls[r]) = 1
               /\ ~InLog(calls[r][1].msg)
    /\ SumCalls(MaxReq) = BagCardinality(healthEventsReceived)
    /\ \A r \in Reqs :
           /\ \A i \in 1..Len(events[r]) : Cardinality(CallsFor(r, i)) <= 1
           /\ Answered(r) =>
                 /\ frame[r] = NoFrame
                 /\ \A k \in DOMAIN calls[r] : calls[r][k].outcome # "pending"

\* a send failed, the request was answered 500, the backend has recovered
\* since and the request has still made that one send only
C6_Witness ==
    \E r \in Reqs :
        /\ IsSingle(r) /\ Answered(r) /\ resp[r].status = 500
        /\ Len(calls[r]) = 1 /\ calls[r][1].outcome = "err"
        /\ backend = "available"

(* C7: a success outcome (the 200 of POST /health/event, a "success" entry *)
(* of a batch response) is reported only when the brokers have already     *)
(* acknowledged the message of that event.                                 *)
C7_AckBeforeRespond ==
    \A r \in Reqs :
        /\ (IsSingle(r) /\ resp[r].status = 200) =>
               /\ AckedFor(r, 1)
               /\ \A k \in CallsFor(r, 1) : InLog(calls[r][k].msg)
        /\ (IsBatch(r) /\ resp[r].status = 200) =>
               \A i \in DOMAIN resp[r].body.results :
                   IsSuccess(resp[r].body.results[i]) =>
                       /\ AckedFor(r, i)
                       /\ \A k \in CallsFor(r, i) : InLog(calls[r][k].msg)

C7_Witness ==
    /\ \E r \in Reqs : IsSingle(r) /\ resp[r].status = 200
    /\ \E r \in Reqs :
           /\ IsBatch(r) /\ resp[r].status = 200
           /\ Len(resp[r].body.results) = 2
           /\ IsFailure(resp[r].body.results[1])
           /\ IsSuccess(resp[r].body.results[2])

(* C8: a batch whose body decodes as an array is answered 200 with one     *)
(* result entry per element, and every element was handed to the           *)
(* publisher, whichever of the publishes failed.                           *)
C8_BatchAnswers200PerElement ==
    \A r \in Reqs :
        (IsBatch(r) /\ Answered(r) /\ DecodesAsArray(raw[r])) =>
            /\ resp[r].status = 200
            /\ Len(resp[r].body.results) = Len(raw[r].a)
            /\ \A i \in DOMAIN raw[r].a :
                   /\ CallsFor(r, i) # {}
                   /\ IsSuccess(resp[r].body.results[i])
                        \/ IsFailure(resp[r].body.results[i])

C8_Witness ==
    \E r \in Reqs :
        /\ IsBatch(r) /\ Answered(r) /\ resp[r].status = 200
        /\ raw[r].t = "arr" /\ Len(raw[r].a) = 2
        /\ IsFailure(resp[r].body.results[1])
        /\ IsSuccess(resp[r].body.results[2])
        /\ AckedFor(r, 2)

(* C9: a batch request whose body is not an array of JSON objects is       *)
(* answered 400 and the producer is never called for it.                   *)
C9_MalformedArrayRejected ==
    \A r \in Reqs :
        (IsBatch(r) /\ ~IsObjectArray(raw[r])) =>
            /\ Answered(r)
            /\ resp[r].status = 400
            /\ calls[r] = <<>>

(* C10: GET /health is answered 200 whatever state the backend is in, and  *)
(* the probe makes no call on the producer.                                *)
C10_ProbeAlways200 ==
    \A r \in Reqs :
        IsProbe(r) =>
            /\ Answered(r)
            /\ resp[r].status = 200
            /\ calls[r] = <<>>
            /\ frame[r] = NoFrame

\* the probe of request 2 was answered while the backend was unreachable
\* and a send of request 1 had just failed on it
C10_Witness ==
    /\ IsProbe(2) /\ resp[2].status = 200
    /\ backend = "unreachable"
    /\ pc[1] = "ret" /\ calls[1][1].outcome = "err"

(* ======================================================================= *)
(* Routing, identity, timestamps, headers and keys                         *)
(* ======================================================================= *)
\* the category strings a caller may send: the eight routed ones, one that
\* is not routed, and the empty string
Categories == DOMAIN DefaultTopics \cup {"other", ""}

\* every producer.SendMessage call made so far
AllCalls == UNION {{calls[r][k] : k \in DOMAIN calls[r]} : r \in Reqs}

(* C11: once the configuration is loaded, every category string resolves   *)
(* to a non-empty destination, and no message is handed to the producer    *)
(* with an empty destination.                                              *)
C11_RoutingTotalNonEmpty ==
    mainPc \notin {"init", Fatalf, Killed} =>
        /\ \A c \in Categories : getTopicForCategory(config, c) # ""
        /\ \A call \in AllCalls : call.msg.Topic # ""

\* a category no case of getTopicForCategory names
Unrouted(category) == category \notin DOMAIN config

(* C12: an event whose category is not a routed one is not rejected: it is *)
(* handed to the producer for the catch-all topic "health.unknown.raw",    *)
(* and when the brokers acknowledge it the request (or the batch element)  *)
(* is answered as a success.                                               *)
C12_UnknownCategoryPublished ==
    \A r \in Reqs :
        /\ (/\ IsSingle(r) /\ ~BindEventFails(raw[r])
            /\ ~LacksRequired(Fields(raw[r]))
            /\ Unrouted(Fields(raw[r]).category)) =>
                /\ Len(calls[r]) = 1
                /\ Answered(r) => resp[r].status # 400
        /\ \A k \in DOMAIN calls[r] :
               LET call == calls[r][k] IN
               Unrouted(call.msg.Value.category) =>
                   /\ call.msg.Topic = "health.unknown.raw"
                   /\ call.outcome = "ack" =>
                         /\ InLog(call.msg)
                         /\ (Answered(r) /\ IsSingle(r)) =>
                                resp[r].status = 200
                         /\ (Answered(r) /\ IsBatch(r)) =>
                                IsSuccess(resp[r].body.results[call.idx])

\* a post with category "other" was answered 200 and its message is in the
\* catch-all topic
C12_Witness ==
    \E r \in Reqs :
        /\ IsSingle(r) /\ Answered(r) /\ resp[r].status = 200
        /\ raw[r].o.category = "other"
        /\ \E k \in DOMAIN log :
               /\ log[k].Topic = "health.unknown.raw"
               /\ log[k].Value.category = "other"
               /\ log[k] = calls[r][1].msg

(* C13: the step that assigns id and createdAt is idempotent and is not    *)
(* the publisher's: applied to the event a publishHealthEvent call already *)
(* normalized it changes neither field, and an event that reaches the      *)
(* publisher with id and createdAt set is sent with those values.          *)
C13_IdentityAssignedOnce ==
    \A r \in Reqs :
        /\ frame[r].active =>
               LET again == AssignIdentity(frame[r].event, uuid(uuids + 1),
                                           now)
               IN  /\ again.ID = frame[r].event.ID
                   /\ again.CreatedAt = frame[r].event.CreatedAt
        /\ \A k \in DOMAIN calls[r] :
               LET given == events[r][calls[r][k].idx]
                   sent == calls[r][k].msg.Value
               IN  (given.ID # "" /\ given.CreatedAt # 0) =>
                       /\ sent.id = given.ID
                       /\ sent.created_at = given.CreatedAt

\* the JSON object the caller posted for call k of request r
Posted(r, k) ==
    IF IsSingle(r) THEN Fields(raw[r])
    ELSE Fields(raw[r].a[calls[r][k].idx])

(* C14: whenever a handler of either endpoint hands a message to the       *)
(* producer, the id in its body is an identifier uuid.New() drew in that   *)
(* very step and its created_at is the clock's reading of that step,       *)
(* whatever id and created_at the caller posted.                           *)
C14_CallerIdentityNeverTrusted ==
    [][\A r \in Reqs :
          Len(calls'[r]) > Len(calls[r]) =>
              /\ uuids' > uuids
              /\ Last(calls'[r]).msg.Value.id \in
                     {uuid(n) : n \in (uuids + 1)..uuids'}
              /\ Last(calls'[r]).msg.Value.created_at = now]_vars

\* a post and a batch element that both carried "id" and "created_at" were
\* sent with other values than the caller's
C14_Witness ==
    \E r, q \in Reqs :
        /\ IsSingle(r) /\ IsBatch(q)
        /\ \E k \in DOMAIN calls[r], j \in DOMAIN calls[q] :
               /\ "id" \in DOMAIN Posted(r, k)
               /\ "created_at" \in DOMAIN Posted(r, k)
               /\ calls[r][k].msg.Value.id # Posted(r, k).id
               /\ calls[r][k].msg.Value.created_at # Posted(r, k).created_at
               /\ "id" \in DOMAIN Posted(q, j)
               /\ "created_at" \in DOMAIN Posted(q, j)
               /\ calls[q][j].msg.Value.id # Posted(q, j).id
               /\ calls[q][j].msg.Value.created_at # Posted(q, j).created_at

(* C15: on both endpoints the timestamp of every message handed to the     *)
(* producer is the caller's when the caller posted one, and otherwise a    *)
(* reading of the clock, never the zero time.                              *)
C15_TimestampCallerOrAcceptance ==
    \A r \in Reqs : \A k \in DOMAIN calls[r] :
        LET sent == calls[r][k].msg.Value.timestamp IN
        IF "timestamp" \in DOMAIN Posted(r, k)
        THEN sent = Posted(r, k).timestamp
        ELSE sent \in 1..now

\* the headers of a message other than its timestamp repeat the body, and
\* its topic is the one its category resolves to
HeadersRepeatBody(msg) ==
    /\ DOMAIN msg.Headers = {"event_type", "category", "source", "timestamp"}
    /\ msg.Headers.event_type = msg.Value.event_type
    /\ msg.Headers.category = msg.Value.category
    /\ msg.Headers.source = msg.Value.source
    /\ msg.Topic = getTopicForCategory(config, msg.Value.category)

(* C16, as claimed: every message handed to the producer carries the four  *)
(* headers with the values of the event in its body, the timestamp header  *)
(* naming the same instant as the body's timestamp, and its topic is the   *)
(* one resolved from the event's category.                                 *)
C16_HeadersEqualBody ==
    \A call \in AllCalls :
        /\ HeadersRepeatBody(call.msg)
        /\ call.msg.Headers.timestamp.sec * TicksPerSecond =
               call.msg.Value.timestamp

(* C16, amended: every message handed to the producer carries the four     *)
(* headers; event_type, category and source equal the body's, the          *)
(* timestamp header is the body's timestamp cut to whole seconds, and the  *)
(* topic is the one resolved from the event's category.                    *)
C16_HeadersFromBodyWholeSeconds ==
    \A call \in AllCalls :
        /\ HeadersRepeatBody(call.msg)
        /\ call.msg.Headers.timestamp.sec * TicksPerSecond
               <= call.msg.Value.timestamp
        /\ call.msg.Value.timestamp
               < (call.msg.Headers.timestamp.sec + 1) * TicksPerSecond

\* an acknowledged message whose timestamp has a fraction of a second
C16_Witness ==
    \E k \in DOMAIN log :
        /\ log[k].Value.timestamp % TicksPerSecond # 0
        /\ log[k].Headers.timestamp.sec =
               log[k].Value.timestamp \div TicksPerSecond
        /\ log[k].Headers.category = "other"
        /\ log[k].Topic = "health.unknown.raw"

(* C17: the key of every message handed to the producer is the user_id of  *)
(* the event in its body, so two messages whose events have the same       *)
(* user_id and the same category have the same topic and the same key.     *)
C17_KeyIsUserId ==
    /\ \A call \in AllCalls : call.msg.Key = call.msg.Value.user_id
    /\ \A c1, c2 \in AllCalls :
           (/\ c1.msg.Value.user_id = c2.msg.Value.user_id
            /\ c1.msg.Value.category = c2.msg.Value.category) =>
               <<c1.msg.Topic, c1.msg.Key>> = <<c2.msg.Topic, c2.msg.Key>>

\* two acknowledged messages of user "u1" in one category, with different
\* ids, under one topic and one key
C17_Witness ==
    \E j, k \in DOMAIN log :
        /\ j < k
        /\ log[j].Value.id # log[k].Value.id
        /\ log[j].Value.user_id = "u1" /\ log[k].Value.user_id = "u1"
        /\ log[j].Value.category = log[k].Value.category
        /\ log[j].Key = "u1" /\ log[k].Key = "u1"
        /\ log[j].Topic = log[k].Topic

(* ======================================================================= *)
(* Startup and shutdown                                                    *)
(* ======================================================================= *)
\* the last SendMessage call of request r was handed to an open producer:
\* the brokers, not the producer's shutdown, decided its outcome
SentWhileOpen(r) ==
    calls[r] # <<>> /\ Last(calls[r]).outcome \in {"pending", "ack", "err"}

(* C18: once the signal has come, the producer is closed only when every   *)
(* request that was in flight at the signal has been answered, and no      *)
(* handler calls SendMessage on a producer that is already closed.         *)
C18_CloseAfterInFlight ==
    /\ producer = "closed" =>
           \A r \in Reqs :
               ~(pc[r] \in {"ret", "handler"} /\ SentWhileOpen(r))
    /\ \A call \in AllCalls : call.outcome # "panic"

(* C19: from the receipt of the signal to the end of the process no        *)
(* request handler starts.                                                 *)
C19_NoNewRequestAfterSignal ==
    [][\A r \in Reqs :
          (mainPc \in {"closing", "closed"} /\ pc[r] = "idle") =>
              pc'[r] = "idle"]_vars

(* C20: a request is only ever served by a process whose tracer and        *)
(* producer were both constructed; once init() is past the two             *)
(* constructions with either of them missing, the process has ended, in   *)
(* log.Fatalf or by a signal that came during init(), and has served no    *)
(* request.                                                                *)
C20_StartupFailureFatal ==
    /\ \A r \in Reqs :
           pc[r] # "idle" => (tracer = "set" /\ producer # "nil")
    /\ Listening => (tracer = "set" /\ producer # "nil")
    /\ ( /\ mainPc \notin {"init", "tracer", "producer"}
         /\ tracer = "nil" \/ producer = "nil" ) =>
           /\ mainPc \in {Fatalf, Killed}
           /\ \A r \in Reqs : pc[r] = "idle"

\* the tracer was built, the producer could not be: the process is dead
\* and has served nothing
C20_Witness ==
    /\ mainPc = Fatalf
    /\ tracer = "set" /\ producer = "nil"
    /\ \A r \in Reqs : pc[r] = "idle" /\ resp[r] = NoResp

(* ======================================================================= *)
(* Metrics, spans, cancellation, ordering                                  *)
(* ======================================================================= *)
\* a request of one of the two POST routes answered 4xx or 5xx
IsPost(r) == IsSingle(r) \/ IsBatch(r)
AnsweredError(r) == IsPost(r) /\ Answered(r) /\ resp[r].status >= 400

\* the batch elements a written batch response reports as failures
FailureEntries(r) ==
    IF IsBatch(r) /\ Answered(r) /\ resp[r].status = 200
    THEN {i \in DOMAIN resp[r].body.results :
              IsFailure(resp[r].body.results[i])}
    ELSE {}

RECURSIVE FailuresReported(_)
FailuresReported(n) ==
    IF n = 0 THEN 0
    ELSE (IF AnsweredError(n) THEN 1 ELSE 0) + Cardinality(FailureEntries(n))
         + FailuresReported(n - 1)

(* C21: the error counter has been incremented once for every failure      *)
(* reported so far: every 4xx or 5xx response of a POST route and every    *)
(* failure entry of a batch response.                                      *)
C21_ErrorCountedPerFailure ==
    BagCardinality(healthEventsErrors) >= FailuresReported(MaxReq)

\* request r's publishHealthEvent call leaves SendMessage and finishes in
\* this step
PublishCompletes(r) ==
    pc[r] = "ret" /\ (pc'[r] # "ret" \/ calls'[r] # calls[r])

(* C22: a publishHealthEvent call that returns from SendMessage increments *)
(* exactly one outcome counter: healthEventsPublished under the message's  *)
(* topic and event type when the brokers acknowledged, healthEventsErrors  *)
(* under "kafka_publish" when the send failed; and neither counter moves   *)
(* in a step in which no call finishes.                                    *)
C22_OneOutcomeCounterPerPublish ==
    [][/\ \A r \in Reqs :
             PublishCompletes(r) =>
                 LET call == Last(calls[r]) IN
                 IF call.outcome = "ack"
                 THEN /\ healthEventsPublished' = healthEventsPublished (+)
                            SetToBag({<<call.msg.Topic,
                                        call.msg.Value.event_type>>})
                      /\ healthEventsErrors' = healthEventsErrors
                 ELSE /\ healthEventsErrors' = healthEventsErrors (+)
                            SetToBag({"kafka_publish"})
                      /\ healthEventsPublished' = healthEventsPublished
       /\ (\A r \in Reqs : ~PublishCompletes(r)) =>
              /\ healthEventsPublished' = healthEventsPublished
              /\ CopiesIn("kafka_publish", healthEventsErrors') =
                     CopiesIn("kafka_publish", healthEventsErrors)]_vars

\* one publish was acknowledged and counted as published, another failed
\* and was counted as an error
C22_Witness ==
    /\ BagCardinality(healthEventsPublished) = 1
    /\ CopiesIn("kafka_publish", healthEventsErrors) = 1
    /\ \E r, q \in Reqs :
           /\ Answered(r) /\ Answered(q)
           /\ calls[r] # <<>> /\ Last(calls[r]).outcome = "ack"
           /\ calls[q] # <<>> /\ Last(calls[q]).outcome = "err"

(* C23: every request that has reached its handler, on each of the three   *)
(* routes, runs in a span the service started for it, and while one of its *)
(* publishes is in progress that span has not been ended.                  *)
C23_EveryRequestInSpan ==
    \A r \in Reqs :
        (IsSingle(r) \/ IsBatch(r) \/ IsProbe(r)) =>
            /\ spanStarts[r] = 1
            /\ pc[r] \in {"send", "ret"} => spanEnds[r] = 0

(* C24: the end of a request's context leaves its SendMessage call, the    *)
(* handler and the acknowledged messages as they are; a send issued by a   *)
(* request whose client has gone still ends only by the brokers'           *)
(* acknowledgment, which appends the message, or by the send's own         *)
(* failure; and no step removes or alters an acknowledged message.         *)
C24_CancelDoesNotAbortSend ==
    [][/\ Len(log') >= Len(log)
       /\ SubSeq(log', 1, Len(log)) = log
       /\ \A r \in Reqs :
             /\ cancelled'[r] # cancelled[r] =>
                    /\ calls' = calls
                    /\ pc' = pc
                    /\ log' = log
             /\ (cancelled[r] /\ pc[r] = "send" /\ pc'[r] # "send") =>
                    /\ Len(calls'[r]) = Len(calls[r])
                    /\ \/ /\ Last(calls'[r]).outcome = "ack"
                          /\ log' = Append(log, Last(calls[r]).msg)
                       \/ /\ Last(calls'[r]).outcome = "err"
                          /\ log' = log]_vars

\* the client of a batch left during the send of its first element; both
\* elements were sent all the same and acknowledged
C24_Witness ==
    \E r \in Reqs :
        /\ IsBatch(r) /\ cancelled[r] /\ Answered(r)
        /\ Len(calls[r]) = 2
        /\ calls[r][1].outcome = "ack" /\ calls[r][2].outcome = "ack"
        /\ InLog(calls[r][1].msg) /\ InLog(calls[r][2].msg)

\* message m1 lies before message m2 in what the brokers hold
OrderedInLog(m1, m2) ==
    \E i, j \in DOMAIN log : i < j /\ log[i] = m1 /\ log[j] = m2

\* The SendMessage calls of one request follow the input order, each is
\* issued only when the one before it has ended, and two acknowledged ones
\* with the same topic and key lie in the log in that order.
BatchSendsInOrder ==
    \A r \in Reqs : \A j, k \in DOMAIN calls[r] :
        j < k =>
            /\ calls[r][j].idx < calls[r][k].idx
            /\ calls[r][j].outcome \in {"ack", "err"}
            /\ (/\ calls[r][j].outcome = "ack"
                /\ calls[r][k].outcome = "ack"
                /\ calls[r][j].msg.Topic = calls[r][k].msg.Topic
                /\ calls[r][j].msg.Key = calls[r][k].msg.Key) =>
                   OrderedInLog(calls[r][j].msg, calls[r][k].msg)

(* C25: the log only grows at its end and a message is not in it when its  *)
(* send is issued, so a message acknowledged before another send is issued *)
(* lies before that send's message; and the sends of one batch are issued  *)
(* one after another in input order and land in that order.                *)
C25_PerUserOrdering ==
    [][/\ \A i \in DOMAIN log : i \in DOMAIN log' /\ log'[i] = log[i]
       /\ \A q \in Reqs :
             Len(calls'[q]) > Len(calls[q]) =>
                 \A i \in DOMAIN log' : log'[i] # Last(calls'[q]).msg
       /\ BatchSendsInOrder']_vars

\* both elements of a batch, same user and same topic, were acknowledged
\* and lie in the log in input order, after the message of an earlier post
\* of the same user to the same topic
C25_Witness ==
    \E r, q \in Reqs :
        /\ IsSingle(q) /\ Answered(q) /\ resp[q].status = 200
        /\ IsBatch(r) /\ Len(calls[r]) = 2
        /\ calls[r][1].outcome = "ack" /\ calls[r][2].outcome = "ack"
        /\ calls[r][1].msg.Key = calls[r][2].msg.Key
        /\ calls[r][1].msg.Topic = calls[r][2].msg.Topic
        /\ calls[q][1].msg.Key = calls[r][1].msg.Key
        /\ calls[q][1].msg.Topic = calls[r][1].msg.Topic
        /\ OrderedInLog(calls[q][1].msg, calls[r][1].msg)
        /\ OrderedInLog(calls[r][1].msg, calls[r][2].msg)

\* the producer goes from open through closing to closed and never back
ProducerClosedOnce ==
    [][producer' # producer =>
           <<producer, producer'>> \in
               {<<"nil", "open">>, <<"open", "closing">>,
                <<"closing", "closed">>}]_vars

(* C26: once the signal has come, main closes the producer and the       *)
(* process ends by main's return; the producer is closed at most once.     *)
C26_ShutdownCompletes ==
    /\ (mainPc = "closing") ~> (mainPc = "exited" /\ producer = "closed")
    /\ ProducerClosedOnce

\* the counters of C27
ReceivedTotal == BagCardinality(healthEventsReceived)
OutcomeTotal ==
    BagCardinality(healthEventsPublished)
        + CopiesIn("json_marshal", healthEventsErrors)
        + CopiesIn("kafka_publish", healthEventsErrors)
\* the requests with a publishHealthEvent call in progress
Publishing == {r \in Reqs : pc[r] \in {"send", "ret"}}

(* C27: the received counter is the published counter plus the             *)
(* json_marshal and kafka_publish error counters plus the publish calls in *)
(* progress: never less than the sum, equal to it when no call is in       *)
(* progress; it counts the publisher's calls and nothing else, and a post  *)
(* rejected by validation made none.                                       *)
C27_CounterConservation ==
    /\ ReceivedTotal >= OutcomeTotal
    /\ ReceivedTotal = OutcomeTotal + Cardinality(Publishing)
    /\ Publishing = {} => ReceivedTotal = OutcomeTotal
    /\ ReceivedTotal = SumCalls(MaxReq)
    /\ \A r \in Reqs :
           (IsSingle(r) /\ Answered(r) /\ resp[r].status = 400) =>
               calls[r] = <<>>

\* a post was rejected for a missing field, a batch of two had one element
\* acknowledged and one failed, and nothing is in progress
C27_Witness ==
    /\ Publishing = {}
    /\ ReceivedTotal = 2
    /\ BagCardinality(healthEventsPublished) = 1
    /\ CopiesIn("kafka_publish", healthEventsErrors) = 1
    /\ CopiesIn("missing_fields", healthEventsErrors) = 1
    /\ \E r, q \in Reqs :
           /\ IsSingle(r) /\ Answered(r) /\ resp[r].status = 400
           /\ IsBatch(q) /\ Answered(q) /\ Len(calls[q]) = 2

\* the success outcomes reported to callers: 200 responses of
\* POST /health/event and "success" entries of batch responses
SuccessOutcomes(r) ==
    IF IsSingle(r) /\ Answered(r) /\ resp[r].status = 200 THEN 1
    ELSE IF IsBatch(r) /\ Answered(r) /\ resp[r].status = 200
    THEN Cardinality({i \in DOMAIN resp[r].body.results :
                          IsSuccess(resp[r].body.results[i])})
    ELSE 0

RECURSIVE SuccessesReported(_)
SuccessesReported(n) ==
    IF n = 0 THEN 0 ELSE SuccessOutcomes(n) + SuccessesReported(n - 1)

AllCompleted == \A r \in Reqs : pc[r] \in {"idle", "mw", "done"}

(* C28: once every request has been answered, the brokers hold as many     *)
(* acknowledged messages as successes were reported to callers, and no     *)
(* message was acknowledged for a post answered 4xx or 5xx nor for a batch *)
(* element reported as a failure.                                          *)
C28_OutcomesAgreeWithLog ==
    AllCompleted =>
        /\ Len(log) = SuccessesReported(MaxReq)
        /\ \A r \in Reqs :
               /\ (IsSingle(r) /\ Answered(r) /\ resp[r].status >= 400) =>
                      \A k \in DOMAIN calls[r] :
                          /\ calls[r][k].outcome # "ack"
                          /\ ~InLog(calls[r][k].msg)
               /\ \A i \in FailureEntries(r) :
                      /\ ~AckedFor(r, i)
                      /\ \A k \in CallsFor(r, i) : ~InLog(calls[r][k].msg)

\* two requests ran side by side, a post answered 200 and a batch with one
\* success and one failure; the brokers hold two messages
C28_Witness ==
    /\ AllCompleted
    /\ Len(log) = 2
    /\ \E r, q \in Reqs :
           /\ IsSingle(r) /\ resp[r].status = 200
           /\ IsBatch(q) /\ resp[q].status = 200
           /\ Cardinality(FailureEntries(q)) = 1
           /\ SuccessOutcomes(q) = 1
           \* the batch's first send was issued before the post's, its
           \* second after it
           /\ calls[q][1].msg.Value.id = uuid(1)
           /\ calls[r][1].msg.Value.id = uuid(2)
           /\ calls[q][2].msg.Value.id = uuid(3)

\* the labels the duration middleware gives a request
DurationLabels(r) == <<Method(r), route[r], ToString(resp[r].status)>>

\* request r has been through the chain of router.Use and has left the
\* duration middleware: a request answered by a handler that is done, or a
\* request no route matched
ThroughChain(r) ==
    \/ pc[r] = "body"
    \/ Finished(r) /\ \A req \in SlashRequests : route[r] # req.path

(* C29: the request-duration histogram holds exactly one observation per   *)
(* request that has been through the handler chain, under that request's   *)
(* method, route and response status.                                      *)
C29_OneDurationObservationPerRequest ==
    /\ BagCardinality(requestDuration) =
           Cardinality({r \in Reqs : ThroughChain(r)})
    /\ \A r \in Reqs :
           ThroughChain(r) =>
               CopiesIn(DurationLabels(r), requestDuration) =
                   Cardinality({q \in Reqs :
                       ThroughChain(q)
                           /\ DurationLabels(q) = DurationLabels(r)})

(* C30: on every path through healthEventHandler the span it started has   *)
(* been ended exactly once when the request is answered, and it is not     *)
(* ended while the handler still runs.                                     *)
C30_SpanEndedOnce ==
    \A r \in Reqs :
        IsSingle(r) =>
            /\ spanStarts[r] = 1
            /\ Answered(r) => spanEnds[r] = 1
            /\ ~Answered(r) => spanEnds[r] = 0

====
